---- MODULE Spec2Model ----
(***************************************************************************)
(* Model of random_stuff/bib_to_html.py: the conversion of a BibTeX        *)
(* database into an HTML reference list.                                   *)
(*                                                                         *)
(* A Python str is a sequence of one-character strings, so that prefix     *)
(* tests, splitting, trimming and comparison are computed, not assumed.    *)
(* A record (one bibtexparser entry) is a function from the field names    *)
(* that are present to their values.  The value of a call that may raise   *)
(* is a result: Ok(v) or Raise(e).                                         *)
(***************************************************************************)
EXTENDS Integers, Sequences, FiniteSets, TLC

VARIABLES
    pc,                \* position of the run / of the call
    input_file,        \* the input path: "missing", "malformed" or "ok"
    bib_entries,       \* the records the parser yields for the input file
    entries,           \* bib_database.entries
    sorted_entries_1,  \* after the sort by first author's last name
    sorted_entries,    \* after the sort by year
    i,                 \* number of entries of sorted_entries already formatted
    html_content,      \* the concatenated fragments
    full_html,         \* the document
    out_file,          \* the output path: [exists, data]
    out_before,        \* the output path as it was when the run started
    entry,             \* format_bibtex_entry's argument
    author_str,        \* format_bibtex_entry's local author_str (a result)
    ret                \* format_bibtex_entry's result

vars == <<pc, input_file, bib_entries, entries, sorted_entries_1, sorted_entries,
          i, html_content, full_html, out_file, out_before, entry, author_str, ret>>

----------------------------------------------------------------------------
(* Results of calls that may raise.                                        *)

Ok(v) == [exc |-> "none", val |-> v]
Raise(e) == [exc |-> e, val |-> <<>>]
None == [exc |-> "unset", val |-> <<>>]

----------------------------------------------------------------------------
(* Python's str operations.                                                *)

\* The characters str.strip() and str.split() treat as whitespace.
Whitespace == {" ", "\t", "\n"}

\* The characters of the model in code-point order ("ENDASH" is U+2013).
CodePoints == <<"\t", "\n", " ", "\"", "#", "&", "(", ")", ",", "-", ".", "/",
                "0", "1", "2", "3", "4", "5", "6", "7", "8", "9", ":", "<", "=", ">",
                "A", "B", "C", "D", "E", "F", "G", "H", "I", "J", "K", "L", "M",
                "N", "O", "P", "Q", "R", "S", "T", "U", "V", "W", "X", "Y", "Z",
                "[", "]", "_",
                "a", "b", "c", "d", "e", "f", "g", "h", "i", "j", "k", "l", "m",
                "n", "o", "p", "q", "r", "s", "t", "u", "v", "w", "x", "y", "z",
                "{", "}", "ENDASH">>

Ord(c) == CHOOSE n \in 1..Len(CodePoints) : CodePoints[n] = c

Upper == <<"A", "B", "C", "D", "E", "F", "G", "H", "I", "J", "K", "L", "M",
           "N", "O", "P", "Q", "R", "S", "T", "U", "V", "W", "X", "Y", "Z">>
Lower == <<"a", "b", "c", "d", "e", "f", "g", "h", "i", "j", "k", "l", "m",
           "n", "o", "p", "q", "r", "s", "t", "u", "v", "w", "x", "y", "z">>

\* str.lower()
lower_char(c) ==
    IF \E n \in 1..Len(Upper) : Upper[n] = c
    THEN Lower[CHOOSE n \in 1..Len(Upper) : Upper[n] = c]
    ELSE c
lower(s) == [n \in 1..Len(s) |-> lower_char(s[n])]

\* str.startswith(p), str.endswith(p)
startswith(s, p) == Len(s) >= Len(p) /\ SubSeq(s, 1, Len(p)) = p
endswith(s, p) == Len(s) >= Len(p) /\ SubSeq(s, Len(s) - Len(p) + 1, Len(s)) = p

\* c in s
contains(s, c) == \E n \in 1..Len(s) : s[n] = c

\* s[k:]
from(s, k) == SubSeq(s, k, Len(s))

\* str.strip()
RECURSIVE lstrip(_)
lstrip(s) == IF s # <<>> /\ Head(s) \in Whitespace THEN lstrip(Tail(s)) ELSE s
RECURSIVE rstrip(_)
rstrip(s) ==
    IF s # <<>> /\ s[Len(s)] \in Whitespace THEN rstrip(SubSeq(s, 1, Len(s) - 1)) ELSE s
strip(s) == rstrip(lstrip(s))

\* str.find(sep): the first position where sep occurs, 0 when it does not
find(s, sep) ==
    LET at == {k \in 1..(Len(s) - Len(sep) + 1) : SubSeq(s, k, k + Len(sep) - 1) = sep}
    IN  IF at = {} THEN 0 ELSE CHOOSE k \in at : \A m \in at : k <= m

\* str.split(sep), sep a non-empty string: always at least one piece
RECURSIVE split(_, _)
split(s, sep) ==
    LET k == find(s, sep)
    IN  IF k = 0 THEN <<s>>
        ELSE <<SubSeq(s, 1, k - 1)>> \o split(from(s, k + Len(sep)), sep)

\* str.split(): the maximal runs of non-whitespace, none for a blank string
RECURSIVE split_ws(_)
split_ws(s) ==
    LET t == lstrip(s)
        stop == {k \in 1..Len(t) : t[k] \in Whitespace}
        e == IF stop = {} THEN Len(t) + 1 ELSE CHOOSE k \in stop : \A m \in stop : k <= m
    IN  IF t = <<>> THEN <<>>
        ELSE <<SubSeq(t, 1, e - 1)>> \o split_ws(from(t, e))

\* sep.join(items)
RECURSIVE join(_, _)
join(sep, items) ==
    IF items = <<>> THEN <<>>
    ELSE IF Len(items) = 1 THEN items[1]
    ELSE items[1] \o sep \o join(sep, Tail(items))

\* str.replace(old, new)
RECURSIVE replace(_, _, _)
replace(s, old, new) ==
    LET k == find(s, old)
    IN  IF k = 0 THEN s
        ELSE SubSeq(s, 1, k - 1) \o new \o replace(from(s, k + Len(old)), old, new)

\* s < t on str: lexicographic by code point
RECURSIVE str_less(_, _)
str_less(s, t) ==
    IF t = <<>> THEN FALSE
    ELSE IF s = <<>> THEN TRUE
    ELSE IF Head(s) = Head(t) THEN str_less(Tail(s), Tail(t))
    ELSE Ord(Head(s)) < Ord(Head(t))

\* str(a), a >= 0, as a field-name suffix and as text
Digits == <<"0", "1", "2", "3", "4", "5", "6", "7", "8", "9">>
RECURSIVE str(_)
str(a) == IF a < 10 THEN <<Digits[a + 1]>> ELSE str(a \div 10) \o <<Digits[(a % 10) + 1]>>
RECURSIVE name(_)
name(s) == IF s = <<>> THEN "" ELSE Head(s) \o name(Tail(s))

\* entry.get(key, default)
get(e, key, default) == IF key \in DOMAIN e THEN e[key] ELSE default

----------------------------------------------------------------------------
(* The string literals of the program.                                     *)

S_and == <<" ", "a", "n", "d", " ">>
S_comma == <<",">>
S_comma_sp == <<",", " ">>
S_amp == <<" ", "&", " ">>
S_unknown_title == <<"U", "n", "k", "n", "o", "w", "n", " ", "t", "i", "t", "l", "e">>
S_nd == <<"n", ".", "d", ".">>
S_hash == <<"#">>
S_http == <<"h", "t", "t", "p">>
S_ftp == <<"f", "t", "p">>
S_doi_org == <<"h", "t", "t", "p", "s", ":", "/", "/", "d", "o", "i", ".", "o", "r", "g", "/">>
S_lparen == <<"(">>
S_rparen == <<")">>
S_em_open == <<"<", "e", "m", ">">>
S_em_in == <<"<", "e", "m", ">", "I", "n", " ">>
S_em_close == <<"<", "/", "e", "m", ">">>
S_vol == <<",", " ", "V", "o", "l", ".", " ">>
S_pp == <<",", " ", "p", "p", ".", " ">>
S_dashes == <<"-", "-">>
S_li_open == <<"\n", "<", "l", "i", ">", "\n", "<", "p", ">">>
S_year_open == <<" ", "(">>
S_year_close == <<")", ".", "\n", "<", "b", "r", ">", "\n", "<", "a", " ", "h", "r", "e", "f",
    "=", "\"">>
S_class == <<"\"", " ", "c", "l", "a", "s", "s", "=", "\"", "e", "x", "t", "e", "r", "n", "a",
    "l", "\"", ">">>
S_a_close == <<"<", "/", "a", ">">>
S_aux_open == <<" ", "<", "a", " ", "h", "r", "e", "f", "=", "\"">>
S_aux_class == <<"\"", " ", "c", "l", "a", "s", "s", "=", "\"", "e", "x", "t", "e", "r", "n",
    "a", "l", "\"", ">", "[">>
S_aux_close == <<"]", "<", "/", "a", ">">>
S_link_sp == <<"l", "i", "n", "k", " ">>
S_strong_open == <<" ", "<", "s", "t", "r", "o", "n", "g", ">">>
S_strong_close == <<"<", "/", "s", "t", "r", "o", "n", "g", ">", ".">>
S_dot == <<".">>
S_sp == <<" ">>
S_li_close == <<"<", "/", "p", ">", "\n", "<", "/", "l", "i", ">">>
S_doc_head == <<"<", "!", "D", "O", "C", "T", "Y", "P", "E", " ", "h", "t", "m", "l", ">",
    "\n", "<", "h", "t", "m", "l", " ", "l", "a", "n", "g", "=", "\"", "i", "t", "\"", ">",
    "\n", "<", "h", "e", "a", "d", ">", "\n", " ", " ", " ", " ", "<", "m", "e", "t", "a", " ",
    "c", "h", "a", "r", "s", "e", "t", "=", "\"", "U", "T", "F", "-", "8", "\"", ">", "\n",
    " ", " ", " ", " ", "<", "t", "i", "t", "l", "e", ">", "C", "o", "n", "v", "e", "r", "t",
    "e", "d", " ", "b", "i", "b", "l", "i", "o", "g", "r", "a", "p", "h", "y", "<", "/", "t",
    "i", "t", "l", "e", ">", "\n", " ", " ", " ", " ", "<", "s", "t", "y", "l", "e", ">", "\n",
    " ", " ", " ", " ", " ", " ", " ", " ", "/", "*", " ", "M", "i", "n", "i", "m", "a", "l",
    " ", "s", "t", "y", "l", "e", "s", " ", "*", "/", "\n", " ", " ", " ", " ", " ", " ", " ",
    " ", "l", "i", " ", "{", "\n", " ", " ", " ", " ", " ", " ", " ", " ", " ", " ", " ", " ",
    "m", "a", "r", "g", "i", "n", "-", "b", "o", "t", "t", "o", "m", ":", " ", "1", "e", "m",
    ";", "\n", " ", " ", " ", " ", " ", " ", " ", " ", "}", "\n", " ", " ", " ", " ", " ", " ",
    " ", " ", ".", "e", "x", "t", "e", "r", "n", "a", "l", " ", "{", "\n", " ", " ", " ", " ",
    " ", " ", " ", " ", " ", " ", " ", " ", "t", "e", "x", "t", "-", "d", "e", "c", "o", "r",
    "a", "t", "i", "o", "n", ":", " ", "n", "o", "n", "e", ";", "\n", " ", " ", " ", " ", " ",
    " ", " ", " ", "}", "\n", " ", " ", " ", " ", "<", "/", "s", "t", "y", "l", "e", ">", "\n",
    "<", "/", "h", "e", "a", "d", ">", "\n", "<", "b", "o", "d", "y", ">", "\n", " ", " ", " ",
    " ", "<", "h", "1", ">", "R", "e", "f", "e", "r", "e", "n", "c", "e", "s", "<", "/", "h",
    "1", ">", "\n", " ", " ", " ", " ", "<", "u", "l", ">", "\n">>
S_doc_tail == <<"\n", " ", " ", " ", " ", "<", "/", "u", "l", ">", "\n", "<", "/", "b", "o",
    "d", "y", ">", "\n", "<", "/", "h", "t", "m", "l", ">">>
S_endash == <<"ENDASH">>
S_empty == <<>>

----------------------------------------------------------------------------
(* get_author_string                                                       *)

\* One pass of the loop body, lines 40-51: the last name of one author.
last_name(author0) ==
    LET author == strip(author0)
    IN  IF contains(author, ",")
        THEN Ok(strip(split(author, S_comma)[1]))
        ELSE LET parts == split_ws(author)
             IN  IF parts = <<>> THEN Raise("IndexError") ELSE Ok(parts[Len(parts)])

\* Lines 54-58: the merge of the last names.
merge_authors(formatted_authors) ==
    IF Len(formatted_authors) > 1
    THEN join(S_comma_sp, SubSeq(formatted_authors, 1, Len(formatted_authors) - 1))
         \o S_amp \o formatted_authors[Len(formatted_authors)]
    ELSE IF formatted_authors # <<>> THEN formatted_authors[1]
    ELSE S_empty

get_author_string(e) ==
    IF "author" \in DOMAIN e
    THEN LET authors == split(e["author"], S_and)
             lasts == [n \in 1..Len(authors) |-> last_name(authors[n])]
         IN  IF \E n \in 1..Len(authors) : lasts[n].exc # "none"
             THEN Raise("IndexError")
             ELSE Ok(merge_authors([n \in 1..Len(authors) |-> lasts[n].val]))
    ELSE Ok(S_empty)

----------------------------------------------------------------------------
(* format_bibtex_entry                                                     *)

\* primary_link without lines 71-76: the url or doi value as it is.
primary_link_unvalidated(e) == get(e, "url", get(e, "doi", S_hash))

\* Lines 70-76: the local link.
primary_link(e) ==
    LET link == get(e, "url", get(e, "doi", S_hash))
    IN  IF link # S_hash /\ ~(startswith(link, S_http) \/ startswith(link, S_ftp))
        THEN IF "doi" \in DOMAIN e THEN S_doi_org \o e["doi"] ELSE S_hash
        ELSE link

\* Lines 80-83: the local custom_note.
custom_note(e) ==
    IF startswith(get(e, "note", S_empty), S_lparen) /\ endswith(get(e, "note", S_empty), S_rparen)
    THEN strip(e["note"])
    ELSE S_empty

\* container with the booktitle branch tested before the journal branch.
container_booktitle_first(e) ==
    IF "booktitle" \in DOMAIN e THEN S_em_in \o e["booktitle"] \o S_em_close
    ELSE IF "journal" \in DOMAIN e THEN S_em_open \o e["journal"] \o S_em_close
    ELSE IF "publisher" \in DOMAIN e THEN S_em_open \o e["publisher"] \o S_em_close
    ELSE S_empty

\* Lines 86-95: the local container.
container(e) ==
    IF "journal" \in DOMAIN e THEN S_em_open \o e["journal"] \o S_em_close
    ELSE IF "booktitle" \in DOMAIN e THEN S_em_in \o e["booktitle"] \o S_em_close
    ELSE IF "publisher" \in DOMAIN e THEN S_em_open \o e["publisher"] \o S_em_close
    ELSE S_empty

\* Lines 87, 97-98: the local volume.
volume(e) == IF "volume" \in DOMAIN e THEN S_vol \o e["volume"] ELSE S_empty

\* Lines 88, 100-102: the local pages.
pages(e) ==
    IF "pages" \in DOMAIN e THEN S_pp \o replace(e["pages"], S_dashes, S_endash) ELSE S_empty

\* Lines 105-109: the start of the fragment.
html_head(e, author, link) ==
    S_li_open \o author \o S_year_open \o get(e, "year", S_nd) \o S_year_close
    \o link \o S_class \o get(e, "title", S_unknown_title) \o S_a_close

\* range(2, 31)
RangeStart == 2
RangeStop == 31

url_key(a) == "url_" \o name(str(a))
url_note_key(a) == "url_note_" \o name(str(a))

\* Lines 114-118: one auxiliary link.
aux_link(e, a) ==
    LET url_note == IF url_note_key(a) \notin DOMAIN e THEN S_link_sp \o str(a)
                    ELSE e[url_note_key(a)]
    IN  S_aux_open \o e[url_key(a)] \o S_aux_class \o url_note \o S_aux_close

\* aux_links with continue in place of break: a missing index is skipped.
RECURSIVE aux_links_skip_gaps(_, _)
aux_links_skip_gaps(e, a) ==
    IF a >= RangeStop THEN S_empty
    ELSE IF url_key(a) \notin DOMAIN e THEN aux_links_skip_gaps(e, a + 1)
    ELSE aux_link(e, a) \o aux_links_skip_gaps(e, a + 1)

\* Lines 111-118: what the loop appends from index a on.
RECURSIVE aux_links(_, _)
aux_links(e, a) ==
    IF a >= RangeStop THEN S_empty
    ELSE IF url_key(a) \notin DOMAIN e THEN S_empty
    ELSE aux_link(e, a) \o aux_links(e, a + 1)

\* Lines 121-124: the note or the period.
note_part(e) ==
    IF custom_note(e) # S_empty THEN S_strong_open \o custom_note(e) \o S_strong_close
    ELSE S_dot

\* Lines 125-127: the venue sentence.
venue_part(e) ==
    IF container(e) # S_empty \/ volume(e) # S_empty \/ pages(e) # S_empty
    THEN S_sp \o container(e) \o volume(e) \o pages(e) \o S_dot
    ELSE S_empty

format_bibtex_entry(e) ==
    LET author == get_author_string(e)
    IN  IF author.exc # "none" THEN author
        ELSE Ok(html_head(e, author.val, primary_link(e)) \o aux_links(e, RangeStart)
                \o note_part(e) \o venue_part(e) \o S_li_close)

----------------------------------------------------------------------------
(* convert_bib_to_html: the two sorts                                      *)

\* Line 156: the key of the sort by first author's last name.
author_sort_key(e) ==
    LET parts == split_ws(split(split(get(e, "author", S_empty), S_and)[1], S_comma)[1])
    IN  IF parts = <<>> THEN Raise("IndexError") ELSE Ok(lower(parts[Len(parts)]))

\* Line 160: the key of the sort by year.
year_sort_key(e) == get(e, "year", S_empty)

\* sorted(items, key=...): stable and ascending, comparing keys with < only.
\* A pair is [key, item]; x goes after every pair whose key is not greater.
RECURSIVE insert(_, _)
insert(x, l) ==
    IF l = <<>> THEN <<x>>
    ELSE IF str_less(x.key, Head(l).key) THEN <<x>> \o l
    ELSE <<Head(l)>> \o insert(x, Tail(l))

RECURSIVE sorted_pairs(_)
sorted_pairs(ps) ==
    IF ps = <<>> THEN <<>>
    ELSE insert(ps[Len(ps)], sorted_pairs(SubSeq(ps, 1, Len(ps) - 1)))

sorted(items, keys) ==
    LET ps == sorted_pairs([n \in 1..Len(items) |-> [key |-> keys[n], item |-> items[n]]])
    IN  [n \in 1..Len(items) |-> ps[n].item]

\* Lines 169-190: the document around the fragments.
document(content) == S_doc_head \o content \o S_doc_tail

\* What a failed write can leave in the file opened with mode 'w': a proper
\* prefix of the text (nothing, half of it, all but the last character).
partial_writes(text) ==
    {SubSeq(text, 1, k) : k \in {0, Len(text) \div 2, Len(text) - 1}}

----------------------------------------------------------------------------
(* Bounds and inputs.                                                      *)

MaxAuthors == 3   \* pieces of an author field
MaxEntries == 3   \* records of a database
AuxSpan == 5      \* url_2 .. url_<AuxSpan> are present or absent independently

Absent == <<"ABSENT">>
NoFields == [k \in {} |-> S_empty]
field(k, v) == IF v = Absent THEN NoFields ELSE k :> v

UrlOptions ==
    {Absent, S_empty, S_hash, S_http, S_ftp, <<"x">>, <<"H", "t", "t", "p">>,
     <<"x", "h", "t", "t", "p">>, <<"h", "t", "t", "p", ":", "/", "/", "x">>}
DoiOptions ==
    {Absent, S_empty, S_hash, S_http, <<"f", "t", "p", "x">>, <<"1", "0", ".", "1", "/", "x">>}
LinkRecords == {field("url", u) @@ field("doi", d) : u \in UrlOptions, d \in DoiOptions}

NoteOptions ==
    {Absent, S_empty, <<"(">>, <<")">>, <<"(", ")">>, <<"(", "a", ")">>, <<" ", "(", "a", ")">>,
     <<"(", "a", ")", " ">>, <<"\t", "(", "a", ")", "\n">>, <<"a">>, <<"(", "a">>, <<"a", ")">>,
     <<")", "(">>, <<"(", " ", "a", " ", ")">>, <<" ">>}
NoteRecords ==
    {field("note", n) @@ field("url_2", u) @@ field("pages", p) :
        n \in NoteOptions, u \in {Absent, <<"u">>}, p \in {Absent, <<"7">>}}

VenueRecords ==
    {field("journal", j) @@ field("booktitle", b) @@ field("publisher", p)
        @@ field("volume", v) @@ field("pages", g) :
        j \in {Absent, S_empty, <<"J">>}, b \in {Absent, S_empty, <<"B">>},
        p \in {Absent, S_empty, <<"P">>}, v \in {Absent, S_empty, <<"8", "6">>},
        g \in {Absent, S_empty, <<"1", "-", "-", "9">>, <<"1", "-", "-", "-", "9">>}}

\* A record with url_<n> for n in U and url_note_<n> for n in N.
RECURSIVE aux_record(_, _)
aux_record(U, N) ==
    IF U = {} /\ N = {} THEN NoFields
    ELSE IF U # {}
    THEN LET n == CHOOSE n \in U : TRUE
         IN  (url_key(n) :> (<<"u">> \o str(n))) @@ aux_record(U \ {n}, N)
    ELSE LET n == CHOOSE n \in N : TRUE
         IN  (url_note_key(n) :> (<<"n">> \o str(n))) @@ aux_record(U, N \ {n})

AuxRecords ==
    {aux_record(U, N) : U \in SUBSET (RangeStart..AuxSpan), N \in SUBSET (RangeStart..AuxSpan)}
    \cup {aux_record(U, {3, RangeStop}) :
            U \in {RangeStart..(RangeStop - 1), RangeStart..RangeStop,
                   RangeStart..(RangeStop + 1), (RangeStart..RangeStop) \ {RangeStop - 1},
                   (RangeStart..RangeStop) \ {17}}}

AuthorPieces ==
    {S_empty, <<" ">>, <<"D", "o", "e">>, <<"J", " ", "D", "o", "e">>,
     <<"D", "o", "e", ",", " ", "J">>, <<",", " ", "J">>, <<" ", "A", " ", " ", "L", "e", "e", " ">>,
     <<"v", " ", "G", " ", ",", "V", ",", "x">>}
AuthorLists == UNION {[1..n -> AuthorPieces] : n \in 1..MaxAuthors}
AuthorRecords ==
    {("author" :> join(S_and, l)) @@ field("year", y) :
        l \in AuthorLists, y \in {Absent, <<"1", "9", "9", "8">>}}

FormatRecords ==
    {NoFields} \cup LinkRecords \cup NoteRecords \cup VenueRecords \cup AuxRecords
    \cup AuthorRecords

SortAuthors ==
    {Absent, <<"Z", "e", "d">>, <<"A", "n", "n">>, <<"J", " ", "a", "n", "n">>,
     <<"L", "e", "e">>, <<",", " ", "J">>, <<"Z", "e", "d", " ", "a", "n", "d", " ">>}
SortYears == {Absent, <<"1", "9", "9", "8">>, <<"1", "9", "9", "0">>, <<"9", "0", "0">>}
SortRecords == {field("author", a) @@ field("year", y) : a \in SortAuthors, y \in SortYears}
Databases == UNION {[1..n -> SortRecords] : n \in 0..MaxEntries}

OldData == <<"o", "l", "d">>
NoFile == [exists |-> FALSE, data |-> S_empty]
File(d) == [exists |-> TRUE, data |-> d]

----------------------------------------------------------------------------
(* One call of format_bibtex_entry.                                        *)

Call(e) ==
    /\ entry' = e
    /\ author_str' = get_author_string(e)
    /\ ret' = format_bibtex_entry(e)

InitFormat ==
    /\ pc = "call"
    /\ entry \in FormatRecords
    /\ author_str = None
    /\ ret = None
    /\ input_file = "ok"
    /\ bib_entries = <<>>
    /\ entries = <<>>
    /\ sorted_entries_1 = <<>>
    /\ sorted_entries = <<>>
    /\ i = 0
    /\ html_content = S_empty
    /\ full_html = S_empty
    /\ out_file = NoFile
    /\ out_before = NoFile

FormatEntry ==
    /\ pc = "call"
    /\ Call(entry)
    /\ pc' = IF format_bibtex_entry(entry).exc = "none" THEN "returned" ELSE "call_raised"
    /\ UNCHANGED <<input_file, bib_entries, entries, sorted_entries_1, sorted_entries,
                   i, html_content, full_html, out_file, out_before>>

NextFormat == FormatEntry

SpecFormat == InitFormat /\ [][NextFormat]_vars

----------------------------------------------------------------------------
(* One run of convert_bib_to_html.                                         *)

Init ==
    /\ pc = "start"
    /\ input_file \in {"missing", "malformed", "ok"}
    /\ bib_entries \in (IF input_file = "ok" THEN Databases ELSE {<<>>})
    /\ entries = <<>>
    /\ sorted_entries_1 = <<>>
    /\ sorted_entries = <<>>
    /\ i = 0
    /\ html_content = S_empty
    /\ full_html = S_empty
    /\ out_file \in {NoFile, File(OldData)}
    /\ out_before = out_file
    /\ entry = NoFields
    /\ author_str = None
    /\ ret = None

\* Lines 137-150: open and parse the input.
ReadInput ==
    /\ pc = "start"
    /\ \/ input_file = "missing" /\ pc' = "error_not_found" /\ UNCHANGED entries
       \/ input_file = "malformed" /\ pc' = "error_read" /\ UNCHANGED entries
       \/ input_file = "ok" /\ pc' = "loaded" /\ entries' = bib_entries
    /\ UNCHANGED <<input_file, bib_entries, sorted_entries_1, sorted_entries, i,
                   html_content, full_html, out_file, out_before, entry, author_str, ret>>

\* Lines 154-157: the sort by first author's last name; a key that raises ends the run.
SortByAuthor ==
    /\ pc = "loaded"
    /\ LET keys == [n \in 1..Len(entries) |-> author_sort_key(entries[n])]
       IN  IF \E n \in 1..Len(entries) : keys[n].exc # "none"
           THEN pc' = "sort_raised" /\ UNCHANGED sorted_entries_1
           ELSE /\ pc' = "sorted_1"
                /\ sorted_entries_1' = sorted(entries, [n \in 1..Len(entries) |-> keys[n].val])
    /\ UNCHANGED <<input_file, bib_entries, entries, sorted_entries, i,
                   html_content, full_html, out_file, out_before, entry, author_str, ret>>

\* Lines 158-161: the sort by year.
SortByYear ==
    /\ pc = "sorted_1"
    /\ sorted_entries' = sorted(sorted_entries_1,
            [n \in 1..Len(sorted_entries_1) |-> year_sort_key(sorted_entries_1[n])])
    /\ pc' = "sorted"
    /\ UNCHANGED <<input_file, bib_entries, entries, sorted_entries_1, i,
                   html_content, full_html, out_file, out_before, entry, author_str, ret>>

\* Lines 165-166: one iteration of the loop over sorted_entries.
FormatNext ==
    /\ pc = "sorted"
    /\ i < Len(sorted_entries)
    /\ Call(sorted_entries[i + 1])
    /\ LET r == format_bibtex_entry(sorted_entries[i + 1])
       IN  IF r.exc = "none"
           THEN html_content' = html_content \o r.val /\ i' = i + 1 /\ pc' = pc
           ELSE pc' = "format_raised" /\ UNCHANGED <<html_content, i>>
    /\ UNCHANGED <<input_file, bib_entries, entries, sorted_entries_1, sorted_entries,
                   full_html, out_file, out_before>>

\* Lines 169-190: the document.
BuildDocument ==
    /\ pc = "sorted"
    /\ i = Len(sorted_entries)
    /\ full_html' = document(html_content)
    /\ pc' = "built"
    /\ UNCHANGED <<input_file, bib_entries, entries, sorted_entries_1, sorted_entries, i,
                   html_content, out_file, out_before, entry, author_str, ret>>

\* Line 193: open(output_file, 'w') truncates the file, or raises and leaves it.
OpenOutput ==
    /\ pc = "built"
    /\ \/ pc' = "opened" /\ out_file' = File(S_empty)
       \/ pc' = "error_write" /\ UNCHANGED out_file
    /\ UNCHANGED <<input_file, bib_entries, entries, sorted_entries_1, sorted_entries, i,
                   html_content, full_html, out_before, entry, author_str, ret>>

\* Lines 194-197: the write and the close, or a failure part of the way.
WriteOutput ==
    /\ pc = "opened"
    /\ \/ pc' = "done" /\ out_file' = File(full_html)
       \/ pc' = "error_write" /\ \E d \in partial_writes(full_html) : out_file' = File(d)
    /\ UNCHANGED <<input_file, bib_entries, entries, sorted_entries_1, sorted_entries, i,
                   html_content, full_html, out_before, entry, author_str, ret>>

Next ==
    \/ ReadInput
    \/ SortByAuthor
    \/ SortByYear
    \/ FormatNext
    \/ BuildDocument
    \/ OpenOutput
    \/ WriteOutput

Spec == Init /\ [][Next]_vars

----------------------------------------------------------------------------
(* Properties of format_bibtex_entry, checked under SpecFormat.            *)

\* The number of places where p occurs in s.
count_occurrences(s, p) ==
    Cardinality({k \in 1..(Len(s) - Len(p) + 1) : SubSeq(s, k, k + Len(p) - 1) = p})

Returned == pc = "returned"
Called == pc \in {"returned", "call_raised"}

\* The fragment up to the opening quote of the title link's href.
HrefPrefix ==
    S_li_open \o author_str.val \o S_year_open \o get(entry, "year", S_nd) \o S_year_close

\* The fragment up to the end of the title link.
TitleLink == html_head(entry, author_str.val, primary_link(entry))

IsLink(s) == startswith(s, S_http) \/ startswith(s, S_ftp)

StrictPriorityLink(e) ==
    IF "url" \in DOMAIN e /\ IsLink(e["url"]) THEN e["url"]
    ELSE IF "doi" \in DOMAIN e THEN S_doi_org \o e["doi"]
    ELSE S_hash

\* C1: the title link's href is the url field when it is present and starts with
\* 'http' or 'ftp'; otherwise 'https://doi.org/' + doi when doi is present;
\* otherwise '#', whatever the values of url and doi.
C1_PrimaryLinkStrictPriority ==
    Returned => startswith(ret.val, HrefPrefix \o StrictPriorityLink(entry) \o S_class)

LastContiguous(e) ==
    LET ok == {j \in 1..30 : \A n \in 2..j : url_key(n) \in DOMAIN e}
    IN  CHOOSE j \in ok : \A m \in ok : m <= j
RECURSIVE LinksOf(_, _, _)
LinksOf(e, lo, hi) == IF lo > hi THEN S_empty ELSE aux_link(e, lo) \o LinksOf(e, lo + 1, hi)

\* C5: the auxiliary links are those of the indices 2..k in increasing order,
\* k the largest index in 2..30 with url_2 .. url_k all present (none when url_2
\* is absent); at most 29 are emitted.
C5_AuxiliaryLinksContiguous ==
    Returned =>
        /\ ret.val = TitleLink \o LinksOf(entry, 2, LastContiguous(entry))
                        \o note_part(entry) \o venue_part(entry) \o S_li_close
        /\ count_occurrences(ret.val, S_aux_close) = LastContiguous(entry) - 1
        /\ count_occurrences(ret.val, S_aux_close) <= 29

\* C5 witness: url_2 and url_4 without url_3: one auxiliary link, for index 2.
C5_GapWitness ==
    /\ Returned
    /\ {"url_2", "url_4"} \subseteq DOMAIN entry
    /\ "url_3" \notin DOMAIN entry
    /\ count_occurrences(ret.val, S_aux_close) = 1

TrimmedNoteSentence(e) ==
    IF "note" \in DOMAIN e /\ startswith(strip(e["note"]), S_lparen)
                           /\ endswith(strip(e["note"]), S_rparen)
    THEN S_strong_open \o strip(e["note"]) \o S_strong_close
    ELSE S_dot

\* C6: a custom note is rendered (in <strong>, then a period) exactly when the
\* note field is present and its trimmed text starts with '(' and ends with ')';
\* otherwise a bare period closes the sentence.
C6_NoteRenderedIffTrimmedParenthesised ==
    Returned =>
        ret.val = TitleLink \o aux_links(entry, RangeStart) \o TrimmedNoteSentence(entry)
                    \o venue_part(entry) \o S_li_close

Surname(piece) ==
    LET p == strip(piece)
        tokens == split_ws(p)
    IN  IF contains(p, ",") THEN strip(SubSeq(p, 1, find(p, S_comma) - 1))
        ELSE tokens[Len(tokens)]
HasSurname(piece) == contains(piece, ",") \/ split_ws(piece) # <<>>
RECURSIVE JoinSurnames(_)
JoinSurnames(ps) ==
    IF Len(ps) = 1 THEN Surname(ps[1])
    ELSE IF Len(ps) = 2 THEN Surname(ps[1]) \o S_amp \o Surname(ps[2])
    ELSE Surname(ps[1]) \o S_comma_sp \o JoinSurnames(Tail(ps))

\* C7: get_author_string returns '' without an author field, and otherwise the
\* last names of the pieces (before the first comma, or the last token), joined
\* with ', ' and a final ' & '.
C7_AuthorStringOfEveryRecord ==
    Called =>
        /\ author_str.exc = "none"
        /\ "author" \notin DOMAIN entry => author_str.val = S_empty
        /\ ("author" \in DOMAIN entry
              /\ \A n \in 1..Len(split(entry["author"], S_and)) :
                    HasSurname(split(entry["author"], S_and)[n]))
           => author_str.val = JoinSurnames(split(entry["author"], S_and))
\* The same, for the records where every piece of the author field has a last name.
AuthorStringWhereDefined ==
    (Called /\ author_str.exc = "none") =>
        /\ "author" \notin DOMAIN entry => author_str.val = S_empty
        /\ "author" \in DOMAIN entry
           => author_str.val = JoinSurnames(split(entry["author"], S_and))

VenueSentence(e) ==
    LET F == DOMAIN e
        shown == IF "journal" \in F THEN S_em_open \o e["journal"] \o S_em_close
                 ELSE IF "booktitle" \in F THEN S_em_open \o <<"I", "n", " ">> \o e["booktitle"] \o S_em_close
                 ELSE IF "publisher" \in F THEN S_em_open \o e["publisher"] \o S_em_close
                 ELSE S_empty
        vol == IF "volume" \in F THEN <<",", " ", "V", "o", "l", ".", " ">> \o e["volume"] ELSE S_empty
        pp == IF "pages" \in F
              THEN <<",", " ", "p", "p", ".", " ">> \o replace(e["pages"], S_dashes, S_endash)
              ELSE S_empty
    IN  IF Len(shown) + Len(vol) + Len(pp) > 0 THEN S_sp \o shown \o vol \o pp \o S_dot
        ELSE S_empty

\* C8: the venue sentence shows at most one container (journal over booktitle,
\* as 'In <booktitle>', over publisher), then ', Vol. <volume>' and ', pp. <pages>'
\* when present, and is appended exactly when one of the three is non-empty.
C8_VenueSentence ==
    Returned =>
        /\ ret.val = TitleLink \o aux_links(entry, RangeStart) \o note_part(entry)
                        \o VenueSentence(entry) \o S_li_close
        /\ count_occurrences(ret.val, S_em_open) <= 1
        /\ (DOMAIN entry \cap {"journal", "booktitle", "publisher", "volume", "pages"} = {})
           => endswith(ret.val, S_a_close \o note_part(entry) \o S_li_close)

\* C8 witness: booktitle and publisher without journal, with a volume.
C8_BooktitleOverPublisherWitness ==
    /\ Returned
    /\ {"booktitle", "publisher", "volume"} \subseteq DOMAIN entry
    /\ "journal" \notin DOMAIN entry
    /\ entry["booktitle"] = <<"B">>
    /\ count_occurrences(ret.val, S_em_in \o <<"B">> \o S_em_close \o S_vol) = 1

\* C9: format_bibtex_entry returns a fragment for every record and never fails.
C9_FormatIsTotal == Called => ret.exc = "none"

\* C10: the href of the title link is '#', or starts with 'http' or 'ftp', or
\* starts with 'https://doi.org/'.
C10_HrefShape ==
    Returned =>
        /\ startswith(ret.val, HrefPrefix)
        /\ LET rest == from(ret.val, Len(HrefPrefix) + 1)
           IN  \/ startswith(rest, S_hash \o S_class)
               \/ startswith(rest, S_http)
               \/ startswith(rest, S_ftp)
               \/ startswith(rest, S_doi_org)

\* C10 witness: a url that is no link and no doi: the href is '#'.
C10_NotALinkWitness ==
    /\ Returned
    /\ "url" \in DOMAIN entry
    /\ entry["url"] = <<"x">>
    /\ "doi" \notin DOMAIN entry
    /\ startswith(ret.val, HrefPrefix \o S_hash \o S_class)

----------------------------------------------------------------------------
(* Properties of convert_bib_to_html, checked under Spec.                  *)

AfterSort == {"sorted", "format_raised", "built", "opened", "done", "error_write"}
Failed == {"error_not_found", "error_read", "error_write"}

FirstAuthorNonBlank(e) ==
    "author" \in DOMAIN e /\ strip(split(e["author"], S_and)[1]) # S_empty

\* One stable sort by (year, lower-cased first-author surname): the indices of
\* items in the order of (year key, surname key, input position).
Before(items, a, b) ==
    LET ya == year_sort_key(items[a])
        yb == year_sort_key(items[b])
        sa == author_sort_key(items[a]).val
        sb == author_sort_key(items[b]).val
    IN  \/ str_less(ya, yb)
        \/ ya = yb /\ str_less(sa, sb)
        \/ ya = yb /\ sa = sb /\ a < b
RECURSIVE Select(_, _)
Select(items, left) ==
    IF left = {} THEN <<>>
    ELSE LET m == CHOOSE m \in left : \A o \in left \ {m} : Before(items, m, o)
         IN  <<items[m]>> \o Select(items, left \ {m})
CompositeSorted(items) == Select(items, 1..Len(items))

\* C2: when every record has an author field with a non-blank first author, the
\* two-pass sort yields the order of one stable sort by (year, surname).
C2_TwoPassEqualsComposite ==
    (input_file = "ok" /\ \A n \in 1..Len(bib_entries) : FirstAuthorNonBlank(bib_entries[n]))
    => /\ pc # "sort_raised"
       /\ pc \in AfterSort => sorted_entries = CompositeSorted(entries)
\* The same, for the databases where every sort key is defined.
TwoPassEqualsCompositeWhereDefined ==
    pc \in AfterSort => sorted_entries = CompositeSorted(entries)

SortableAuthor(e) ==
    "author" \in DOMAIN e
    => author_sort_key(e).exc = "none" /\ get_author_string(e).exc = "none"

\* C3: a record with no author field is never an error; within one year the
\* records without an author come before those with one.
C3_NoAuthorIsNoError ==
    (/\ input_file = "ok"
     /\ \E n \in 1..Len(bib_entries) : "author" \notin DOMAIN bib_entries[n]
     /\ \A n \in 1..Len(bib_entries) : SortableAuthor(bib_entries[n]))
    => /\ pc \notin {"sort_raised", "format_raised"}
       /\ pc \in AfterSort =>
            \A a, b \in 1..Len(sorted_entries) :
                (/\ a < b
                 /\ year_sort_key(sorted_entries[a]) = year_sort_key(sorted_entries[b])
                 /\ "author" \notin DOMAIN sorted_entries[b])
                => "author" \notin DOMAIN sorted_entries[a]

\* C4: after a failing run the output file is as it was before the run or holds
\* the complete document; after a parse failure it is as it was.
C4_NoPartialOutput ==
    /\ pc \in Failed => (out_file = out_before \/ (pc = "error_write" /\ out_file = File(full_html)))
    /\ pc = "error_read" => out_file = out_before

====
